---- MODULE Spec2Model ----
(***************************************************************************)
(* A model of src/tiling.py: tile_image, validate_tile_parameters,         *)
(* generate_tile_coordinates, tile_annotations, get_annotations_in_tile.   *)
(*                                                                         *)
(* Overlap ratios are Python floats.  The model draws them from dyadic     *)
(* rationals <<numerator, denominator>> (denominator > 0), for which the   *)
(* float products and quotients with small integers are exact, so that     *)
(* round() and math.floor() are computed here as the interpreter computes  *)
(* them.  Tuples are 1-indexed: Python's box[0] is box[1] here.            *)
(***************************************************************************)
EXTENDS Integers, Sequences, FiniteSets, TLC

VARIABLES
    args,              \* the arguments of the call
    op,                \* the function that was called ("none" before the call)
    pc,                \* position of the call
    result,            \* the outcome of the call: nothing yet, a return, a raise
    tile_coordinates,  \* tile_image's local (line 41)
    images,            \* the sub-images tile_image has cropped so far
    crops              \* the boxes handed to image.crop, in call order

vars == <<args, op, pc, result, tile_coordinates, images, crops>>

(***************************************************************************)
(* Bounds of the inputs.                                                   *)
(***************************************************************************)
MaxWidth == 2
MaxHeight == 4
MaxAnn == 2

Widths == 1..MaxWidth
Heights == 1..MaxHeight
SliceWidths == (-1)..(MaxWidth + 1)
SliceHeights == (-1)..(MaxHeight + 1)
\* -0.5, 0.0, 0.5, 0.75, 1.0, 1.5
Ratios == {<<-1, 2>>, <<0, 1>>, <<1, 2>>, <<3, 4>>, <<1, 1>>, <<3, 2>>}
AnnBoxes == {<<0, 0, 2, 2>>, <<0, 0, 1, 1>>, <<0, 1, 1, 3>>}
Annotations == {[box |-> b] : b \in AnnBoxes}
AnnotationLists == UNION {[1..n -> Annotations] : n \in 0..MaxAnn}

(***************************************************************************)
(* Outcomes and exceptions.                                                *)
(***************************************************************************)
NoOutcome == [kind |-> "none"]
Return(v) == [kind |-> "return", value |-> v]
Raise(e) == [kind |-> "raise", exc |-> e]

\* The f-strings of lines 76, 80, 84, 88 name the parameter and interpolate
\* the value passed; an integer n is written <<n, 1>>.
ValueError(param, value) == [type |-> "ValueError", param |-> param, value |-> value]
ZeroDivisionError == [type |-> "ZeroDivisionError"]

(***************************************************************************)
(* Arithmetic.                                                             *)
(***************************************************************************)
\* math.floor(p / q), q # 0
Floor(p, q) ==
    LET pp == IF q < 0 THEN -p ELSE p
        qq == IF q < 0 THEN -q ELSE q
    IN IF pp >= 0 THEN pp \div qq ELSE -((-pp + qq - 1) \div qq)

\* round with halves rounded up, as Python 2 and C round them for p >= 0
round_half_up(p, q) == Floor(2 * p + q, 2 * q)

\* round(p / q), q > 0: Python 3 rounds halves to the even neighbour
round(p, q) ==
    LET f == Floor(p, q)
        r == p - f * q
    IN IF 2 * r < q THEN f
       ELSE IF 2 * r > q THEN f + 1
       ELSE IF f % 2 = 0 THEN f ELSE f + 1

\* 0 < ratio <= 1
RatioInRange(ratio) == 0 < ratio[1] /\ ratio[1] <= ratio[2]

\* validate_tile_parameters with the upper bound of slice_width excluded
validate_strict_width(image_size, slice_width, slice_height, horizontal_overlap_ratio, vertical_overlap_ratio) ==
    IF ~(0 < slice_width /\ slice_width < image_size[1])
    THEN Raise(ValueError("slice_width", <<slice_width, 1>>))
    ELSE IF ~(0 < slice_height /\ slice_height <= image_size[2])
    THEN Raise(ValueError("slice_height", <<slice_height, 1>>))
    ELSE IF ~RatioInRange(horizontal_overlap_ratio)
    THEN Raise(ValueError("horizontal_overlap_ratio", horizontal_overlap_ratio))
    ELSE IF ~RatioInRange(vertical_overlap_ratio)
    THEN Raise(ValueError("vertical_overlap_ratio", vertical_overlap_ratio))
    ELSE Return("None")

\* validate_tile_parameters with the ratios checked before the slice sizes
validate_ratios_first(image_size, slice_width, slice_height, horizontal_overlap_ratio, vertical_overlap_ratio) ==
    IF ~RatioInRange(horizontal_overlap_ratio)
    THEN Raise(ValueError("horizontal_overlap_ratio", horizontal_overlap_ratio))
    ELSE IF ~RatioInRange(vertical_overlap_ratio)
    THEN Raise(ValueError("vertical_overlap_ratio", vertical_overlap_ratio))
    ELSE IF ~(0 < slice_width /\ slice_width <= image_size[1])
    THEN Raise(ValueError("slice_width", <<slice_width, 1>>))
    ELSE IF ~(0 < slice_height /\ slice_height <= image_size[2])
    THEN Raise(ValueError("slice_height", <<slice_height, 1>>))
    ELSE Return("None")

(***************************************************************************)
(* validate_tile_parameters (lines 55-89)                                  *)
(***************************************************************************)
validate_tile_parameters(image_size, slice_width, slice_height, horizontal_overlap_ratio, vertical_overlap_ratio) ==
    IF ~(0 < slice_width /\ slice_width <= image_size[1])
    THEN Raise(ValueError("slice_width", <<slice_width, 1>>))
    ELSE IF ~(0 < slice_height /\ slice_height <= image_size[2])
    THEN Raise(ValueError("slice_height", <<slice_height, 1>>))
    ELSE IF ~RatioInRange(horizontal_overlap_ratio)
    THEN Raise(ValueError("horizontal_overlap_ratio", horizontal_overlap_ratio))
    ELSE IF ~RatioInRange(vertical_overlap_ratio)
    THEN Raise(ValueError("vertical_overlap_ratio", vertical_overlap_ratio))
    ELSE Return("None")

(***************************************************************************)
(* generate_tile_coordinates (lines 92-128)                                *)
(***************************************************************************)
\* round(slice_width * ratio), lines 115-118
Stride(slice_width, ratio) == round(slice_width * ratio[1], ratio[2])

\* Count with math.ceil for math.floor
CountCeil(image_dim, slice_dim, ratio) ==
    -Floor(-(image_dim * ratio[2]), slice_dim * ratio[1])

\* math.floor(image_dim / (slice_dim * ratio)), lines 121 and 125;
\* slice_dim * ratio # 0
Count(image_dim, slice_dim, ratio) ==
    Floor(image_dim * ratio[2], slice_dim * ratio[1])

\* TileBox with the bottom taken from slice_width, as the strides are
TileBoxWidthForHeight(x, y, slice_width, slice_height, horizontal_overlap_ratio, vertical_overlap_ratio) ==
    << x * Stride(slice_width, horizontal_overlap_ratio),
       y * Stride(slice_width, vertical_overlap_ratio),
       slice_width + x * Stride(slice_width, horizontal_overlap_ratio),
       slice_width + y * Stride(slice_width, vertical_overlap_ratio) >>

\* the tuple of lines 114-119 for column x and row y (both from 0)
TileBox(x, y, slice_width, slice_height, horizontal_overlap_ratio, vertical_overlap_ratio) ==
    << x * Stride(slice_width, horizontal_overlap_ratio),
       y * Stride(slice_width, vertical_overlap_ratio),
       slice_width + x * Stride(slice_width, horizontal_overlap_ratio),
       slice_height + y * Stride(slice_width, vertical_overlap_ratio) >>

\* The outer iterable (line 125) is evaluated first; the inner one (line 121)
\* once per row, so only when there is a row.  A float division by 0.0
\* raises ZeroDivisionError.
generate_tile_coordinates(image_width, image_height, slice_width, slice_height, horizontal_overlap_ratio, vertical_overlap_ratio) ==
    IF slice_height * vertical_overlap_ratio[1] = 0
    THEN Raise(ZeroDivisionError)
    ELSE LET rows == Count(image_height, slice_height, vertical_overlap_ratio)
         IN IF rows <= 0 THEN Return(<< >>)
            ELSE IF slice_width * horizontal_overlap_ratio[1] = 0
            THEN Raise(ZeroDivisionError)
            ELSE LET cols == Count(image_width, slice_width,
                                   horizontal_overlap_ratio)
                 IN Return([y \in 1..rows |->
                              [x \in 1..cols |->
                                 TileBox(x - 1, y - 1, slice_width, slice_height,
                                         horizontal_overlap_ratio,
                                         vertical_overlap_ratio)]])

(***************************************************************************)
(* get_annotations_in_tile (lines 177-190), tile_annotations (131-174)     *)
(***************************************************************************)
\* annotation_in_tile with the tile's right and bottom edges excluded
annotation_strictly_in_tile(ann, tile) ==
    /\ ann.box[1] >= tile[1]
    /\ ann.box[2] >= tile[2]
    /\ ann.box[3] < tile[3]
    /\ ann.box[4] < tile[4]

annotation_in_tile(ann, tile) ==
    /\ ann.box[1] >= tile[1]
    /\ ann.box[2] >= tile[2]
    /\ ann.box[3] <= tile[3]
    /\ ann.box[4] <= tile[4]

get_annotations_in_tile(annotations, tile) ==
    SelectSeq(annotations, LAMBDA ann : annotation_in_tile(ann, tile))

tile_annotations(annotations, image_width, image_height, slice_width, slice_height, horizontal_overlap_ratio, vertical_overlap_ratio) ==
    LET tc == generate_tile_coordinates(image_width, image_height, slice_width,
                                        slice_height, horizontal_overlap_ratio,
                                        vertical_overlap_ratio)
    IN IF tc.kind = "raise" THEN tc
       ELSE Return([r \in 1..Len(tc.value) |->
                      [c \in 1..Len(tc.value[r]) |->
                         get_annotations_in_tile(annotations, tc.value[r][c])]])

(***************************************************************************)
(* tile_image (lines 11-52)                                                *)
(***************************************************************************)
\* image.crop(box): the collaborator returns the sub-image of the box
crop(box) == [box |-> box, size |-> <<box[3] - box[1], box[4] - box[2]>>]

\* number of boxes in the rows before row r
Offset(grid, r) ==
    LET RECURSIVE Sum(_)
        Sum(k) == IF k = 0 THEN 0 ELSE Len(grid[k]) + Sum(k - 1)
    IN Sum(r - 1)

\* CropOrder with the loops exchanged: column by column
CropOrderColumnMajor(grid) ==
    LET rows == Len(grid)
        cols == IF rows = 0 THEN 0 ELSE Len(grid[1])
    IN [k \in 1..(rows * cols) |->
           grid[((k - 1) % rows) + 1][((k - 1) \div rows) + 1]]

\* the boxes in the order the nested comprehension of lines 49-51 visits them
CropOrder(grid) ==
    LET RECURSIVE Flat(_)
        Flat(k) == IF k = 0 THEN << >> ELSE Flat(k - 1) \o grid[k]
    IN Flat(Len(grid))

\* the nested list the comprehension builds from the cropped images
Nest(grid, flat) ==
    [r \in 1..Len(grid) |-> [c \in 1..Len(grid[r]) |-> flat[Offset(grid, r) + c]]]

(***************************************************************************)
(* The calls.                                                              *)
(***************************************************************************)
Init ==
    /\ args \in [image_width : Widths, image_height : Heights,
                 slice_width : SliceWidths, slice_height : SliceHeights,
                 horizontal_overlap_ratio : Ratios,
                 vertical_overlap_ratio : Ratios,
                 annotations : {<< >>}]
    /\ op = "none"
    /\ pc = "idle"
    /\ result = NoOutcome
    /\ tile_coordinates = << >>
    /\ images = << >>
    /\ crops = << >>

CallValidateTileParameters ==
    /\ pc = "idle"
    /\ op' = "validate_tile_parameters"
    /\ result' = validate_tile_parameters(
                     <<args.image_width, args.image_height>>,
                     args.slice_width, args.slice_height,
                     args.horizontal_overlap_ratio, args.vertical_overlap_ratio)
    /\ pc' = "done"
    /\ UNCHANGED <<args, tile_coordinates, images, crops>>

CallGenerateTileCoordinates ==
    /\ pc = "idle"
    /\ op' = "generate_tile_coordinates"
    /\ result' = generate_tile_coordinates(
                     args.image_width, args.image_height,
                     args.slice_width, args.slice_height,
                     args.horizontal_overlap_ratio, args.vertical_overlap_ratio)
    /\ pc' = "done"
    /\ UNCHANGED <<args, tile_coordinates, images, crops>>

CallTileAnnotations ==
    /\ pc = "idle"
    /\ \E anns \in AnnotationLists :
          /\ args' = [args EXCEPT !.annotations = anns]
          /\ result' = tile_annotations(
                           anns, args.image_width, args.image_height,
                           args.slice_width, args.slice_height,
                           args.horizontal_overlap_ratio,
                           args.vertical_overlap_ratio)
    /\ op' = "tile_annotations"
    /\ pc' = "done"
    /\ UNCHANGED <<tile_coordinates, images, crops>>

\* lines 33-39
TileImageValidate ==
    /\ pc = "idle"
    /\ op' = "tile_image"
    /\ LET v == validate_tile_parameters(
                    <<args.image_width, args.image_height>>,
                    args.slice_width, args.slice_height,
                    args.horizontal_overlap_ratio, args.vertical_overlap_ratio)
       IN IF v.kind = "raise"
          THEN result' = v /\ pc' = "done"
          ELSE result' = result /\ pc' = "generate"
    /\ UNCHANGED <<args, tile_coordinates, images, crops>>

\* lines 40-48
TileImageGenerate ==
    /\ pc = "generate"
    /\ LET g == generate_tile_coordinates(
                    args.image_width, args.image_height,
                    args.slice_width, args.slice_height,
                    args.horizontal_overlap_ratio, args.vertical_overlap_ratio)
       IN IF g.kind = "raise"
          THEN /\ result' = g
               /\ pc' = "done"
               /\ UNCHANGED tile_coordinates
          ELSE /\ tile_coordinates' = g.value
               /\ pc' = "crop"
               /\ UNCHANGED result
    /\ UNCHANGED <<args, op, images, crops>>

\* one image.crop(box) of lines 49-51
TileImageCrop ==
    /\ pc = "crop"
    /\ Len(images) < Len(CropOrder(tile_coordinates))
    /\ LET box == CropOrder(tile_coordinates)[Len(images) + 1]
       IN /\ crops' = Append(crops, box)
          /\ images' = Append(images, crop(box))
    /\ UNCHANGED <<args, op, pc, result, tile_coordinates>>

\* line 52
TileImageReturn ==
    /\ pc = "crop"
    /\ Len(images) = Len(CropOrder(tile_coordinates))
    /\ result' = Return(Nest(tile_coordinates, images))
    /\ pc' = "done"
    /\ UNCHANGED <<args, op, tile_coordinates, images, crops>>

Next ==
    \/ CallValidateTileParameters
    \/ CallGenerateTileCoordinates
    \/ CallTileAnnotations
    \/ TileImageValidate
    \/ TileImageGenerate
    \/ TileImageCrop
    \/ TileImageReturn

Spec == Init /\ [][Next]_vars

(***************************************************************************)
(* The properties.  Their vocabulary is stated from the claims' words, not *)
(* with the operators of the model.                                        *)
(***************************************************************************)
W == args.image_width
H == args.image_height
SW == args.slice_width
SH == args.slice_height
HR == args.horizontal_overlap_ratio
VR == args.vertical_overlap_ratio

\* the ratio n/d lies outside (0, 1]
RatioOutOfBounds(ratio) == ratio[1] <= 0 \/ ratio[1] > ratio[2]
WidthOutOfBounds == SW <= 0 \/ SW > W
HeightOutOfBounds == SH <= 0 \/ SH > H
OutOfBounds ==
    \/ WidthOutOfBounds
    \/ HeightOutOfBounds
    \/ RatioOutOfBounds(HR)
    \/ RatioOutOfBounds(VR)
ValidArgs == ~OutOfBounds

\* n = floor(p / q), for p >= 0 and q > 0
IsFloor(n, p, q) == n * q <= p /\ p < (n + 1) * q

Abs(i) == IF i < 0 THEN -i ELSE i
\* s is p / q (q > 0) rounded to the nearest integer, a half to the even one
IsRoundHalfEven(s, p, q) ==
    /\ 2 * Abs(s * q - p) <= q
    /\ 2 * Abs(s * q - p) = q => s % 2 = 0

Returned(f) == op = f /\ pc = "done" /\ result.kind = "return"
Raised(f) == op = f /\ pc = "done" /\ result.kind = "raise"

C9_FirstViolationSurfaced ==
    (op = "validate_tile_parameters" /\ pc = "done" /\ OutOfBounds) =>
        /\ result.kind = "raise"
        /\ result.exc.param =
               (IF WidthOutOfBounds THEN "slice_width"
                ELSE IF HeightOutOfBounds THEN "slice_height"
                ELSE IF RatioOutOfBounds(HR) THEN "horizontal_overlap_ratio"
                ELSE "vertical_overlap_ratio")
        /\ result.exc.value =
               (IF WidthOutOfBounds THEN <<SW, 1>>
                ELSE IF HeightOutOfBounds THEN <<SH, 1>>
                ELSE IF RatioOutOfBounds(HR) THEN HR
                ELSE VR)

C9_Witness ==
    /\ Raised("validate_tile_parameters")
    /\ ~WidthOutOfBounds /\ HeightOutOfBounds
    /\ RatioOutOfBounds(HR) /\ RatioOutOfBounds(VR)
    /\ result.exc.param = "slice_height"

\* C3: for valid inputs the grid of generate_tile_coordinates has
\* floor(image_height / (slice_height * vertical_overlap_ratio)) rows, each of
\* floor(image_width / (slice_width * horizontal_overlap_ratio)) boxes.
C3_GridShape ==
    (op = "generate_tile_coordinates" /\ pc = "done" /\ ValidArgs) =>
        /\ result.kind = "return"
        /\ IsFloor(Len(result.value), H * VR[2], SH * VR[1])
        /\ \A r \in 1..Len(result.value) :
               IsFloor(Len(result.value[r]), W * HR[2], SW * HR[1])

C3_Witness ==
    /\ Returned("generate_tile_coordinates")
    /\ ValidArgs
    /\ HR # <<1, 1>> /\ VR # HR /\ SW # SH
    /\ Len(result.value) >= 2
    /\ Len(result.value[1]) >= 2
    /\ Len(result.value[1]) # Len(result.value)

\* C4: for valid inputs every box (left, top, right, bottom) of the grid has
\* right - left = slice_width and bottom - top = slice_height.
C4_BoxSize ==
    (Returned("generate_tile_coordinates") /\ ValidArgs) =>
        \A r \in 1..Len(result.value) :
            \A c \in 1..Len(result.value[r]) :
                /\ result.value[r][c][3] - result.value[r][c][1] = SW
                /\ result.value[r][c][4] - result.value[r][c][2] = SH

C4_Witness ==
    /\ Returned("generate_tile_coordinates")
    /\ ValidArgs
    /\ SW # SH
    /\ Len(result.value) >= 2
    /\ Len(result.value[2]) >= 2
    /\ result.value[2][2][1] > 0 /\ result.value[2][2][2] > 0

Overlap(a, b) ==
    /\ (IF a[1] > b[1] THEN a[1] ELSE b[1]) < (IF a[3] < b[3] THEN a[3] ELSE b[3])
    /\ (IF a[2] > b[2] THEN a[2] ELSE b[2]) < (IF a[4] < b[4] THEN a[4] ELSE b[4])

\* C6: for both overlap ratios = 1 and valid image and slice dimensions, no
\* box of the returned grid shares an interior pixel with its left, right,
\* upper or lower neighbour.
C6_NoOverlapAtRatioOne ==
    (/\ Returned("generate_tile_coordinates")
     /\ ValidArgs
     /\ HR = <<1, 1>> /\ VR = <<1, 1>>) =>
        LET g == result.value
        IN \A r \in 1..Len(g) : \A c \in 1..Len(g[r]) :
               /\ c < Len(g[r]) => ~Overlap(g[r][c], g[r][c + 1])
               /\ r < Len(g) => ~Overlap(g[r][c], g[r + 1][c])

\* C10: for valid inputs every pixel (px, py) of the image lies in at least
\* one box of the returned grid.
C10_GridCoversImage ==
    (Returned("generate_tile_coordinates") /\ ValidArgs) =>
        LET g == result.value
        IN \A px \in 0..(W - 1) : \A py \in 0..(H - 1) :
               \E r \in 1..Len(g) : \E c \in 1..Len(g[r]) :
                   /\ g[r][c][1] <= px /\ px < g[r][c][3]
                   /\ g[r][c][2] <= py /\ py < g[r][c][4]

\* C2: a call of tile_annotations whose tile parameters violate a bound of the
\* validator fails with the invalid-parameter error (ValueError), and the call
\* has no other failure mode.
C2_TileAnnotationsValidates ==
    (op = "tile_annotations" /\ pc = "done") =>
        /\ OutOfBounds => (result.kind = "raise" /\ result.exc.type = "ValueError")
        /\ result.kind = "raise" => result.exc.type = "ValueError"

\* annotation box a lies within tile box t
Within(a, t) == a[1] >= t[1] /\ a[2] >= t[2] /\ a[3] <= t[3] /\ a[4] <= t[4]

\* cell is the subsequence of anns, in input order, of the annotations within t
IsSubsequenceWithin(cell, anns, t) ==
    LET keep == {i \in 1..Len(anns) : Within(anns[i].box, t)}
    IN /\ Len(cell) = Cardinality(keep)
       /\ \A k \in 1..Len(cell) :
              \E i \in keep : /\ Cardinality({j \in keep : j <= i}) = k
                              /\ cell[k] = anns[i]

\* the grid generate_tile_coordinates gives for the arguments of the call
TileGrid ==
    generate_tile_coordinates(W, H, SW, SH, HR, VR)

\* C7: tile_annotations returns a grid of the shape of the tile grid, and cell
\* (r,c) is the subsequence, in input order, of the annotations whose box lies
\* within box(r,c), bounds included: an annotation equal to the tile's box is
\* in the cell, one that straddles the boundary of two tiles is in neither.
C7_AnnotationCells ==
    (op = "tile_annotations" /\ pc = "done" /\ TileGrid.kind = "return") =>
        /\ result.kind = "return"
        /\ Len(result.value) = Len(TileGrid.value)
        /\ \A r \in 1..Len(TileGrid.value) :
               /\ Len(result.value[r]) = Len(TileGrid.value[r])
               /\ \A c \in 1..Len(TileGrid.value[r]) :
                      IsSubsequenceWithin(result.value[r][c], args.annotations,
                                          TileGrid.value[r][c])

\* one annotation equals the box of a tile and is in its cell; another
\* overlaps two tiles, lies within neither and is in no cell
C7_Witness ==
    /\ Returned("tile_annotations")
    /\ ValidArgs
    /\ Len(args.annotations) = 2
    /\ \E r \in 1..Len(result.value) : \E c \in 1..Len(result.value[r]) :
           /\ args.annotations[1].box = TileGrid.value[r][c]
           /\ result.value[r][c] = <<args.annotations[1]>>
    /\ \E r \in 1..(Len(result.value) - 1) :
           /\ Overlap(args.annotations[2].box, TileGrid.value[r][1])
           /\ Overlap(args.annotations[2].box, TileGrid.value[r + 1][1])
    /\ \A r \in 1..Len(result.value) : \A c \in 1..Len(result.value[r]) :
           \A k \in 1..Len(result.value[r][c]) :
               result.value[r][c][k] # args.annotations[2]

\* C8: tile_image validates, then generates, then crops.  When validation
\* fails, no crop is invoked and nothing is returned; when it succeeds, crop
\* is invoked once for each box of the generated grid, in row-major order,
\* and the returned grid of images has the shape of the tile grid.
C8_ValidateGenerateCrop ==
    op = "tile_image" =>
        /\ OutOfBounds =>
               /\ crops = << >> /\ images = << >>
               /\ pc = "done" /\ result.kind = "raise"
        /\ ValidArgs =>
               LET g == TileGrid.value
                   cols == IF Len(g) = 0 THEN 0 ELSE Len(g[1])
               IN /\ Len(crops) <= Len(g) * cols
                  /\ \A k \in 1..Len(crops) :
                         crops[k] = g[((k - 1) \div cols) + 1][((k - 1) % cols) + 1]
                  /\ pc = "generate" => crops = << >>
                  /\ pc = "done" =>
                         /\ result.kind = "return"
                         /\ Len(crops) = Len(g) * cols
                         /\ Len(result.value) = Len(g)
                         /\ \A r \in 1..Len(g) :
                                /\ Len(result.value[r]) = Len(g[r])
                                /\ \A c \in 1..Len(g[r]) :
                                       result.value[r][c].box = g[r][c]

C8_Witness ==
    /\ op = "tile_image" /\ pc = "done" /\ result.kind = "return"
    /\ Len(result.value) >= 2
    /\ Len(result.value[1]) >= 2
    /\ Len(result.value) # Len(result.value[1])
    /\ crops[2] # crops[1]
    /\ crops[Len(result.value[1]) + 1] # crops[1]

====
